---- MODULE Spec2Model ----
(***************************************************************************)
(* Model of the feature-generation stage of viasat-replication:            *)
(*   src/src/features/feature_creation.py  split, longest_dir_streak, roll *)
(*   src/src/features/features.py          engineer_features,              *)
(*                                         create_features                 *)
(*                                                                         *)
(* Four specifications share the module:                                   *)
(*   SpecSplit   split() applied to one bounded flow                       *)
(*   SpecStreak  longest_dir_streak() applied to one bounded sequence      *)
(*   SpecFeat    engineer_features() applied to one bounded window         *)
(*   Spec        create_features(): split every file, fan the windows out  *)
(*               over the worker pool, fan in, assemble, write             *)
(*                                                                         *)
(* Numbers. Times are integer milliseconds, sizes integer bytes.  A float  *)
(* quotient n/d is the pair <<n, d>> (d > 0); NaN and Inf are the tuples  *)
(* <<"nan">> and <<"inf">>.                                                *)
(***************************************************************************)
EXTENDS Integers, Sequences, FiniteSets, TLC

VARIABLES
    \* ---- one call of a library function (SpecSplit, SpecStreak, SpecFeat)
    call,               \* the function called and its arguments
    ret,                \* what the call returned; NotCalled before it
    \* ---- one run of create_features (Spec)
    source_dir,         \* the preprocessed files: <<[novideo, rows]>>
    chunk_size,
    rolling_window_1,
    rolling_window_2,
    workers,            \* multiprocessing.cpu_count()
    pc,                 \* position of create_features
    args,               \* the task list built at features.py:155
    taskq,              \* the pool's queue of chunks not yet taken
    wk,                 \* per worker: the chunk it holds and its progress
    number_left,        \* chunks whose result has not been posted
    map_success,        \* FALSE once a chunk posted an exception
    results,            \* per task: what pool.map collected
    executed,           \* per task: how many times it was run
    map_exc,            \* the first exception a chunk posted
    features_df,        \* the assembled matrix (rows)
    logged,             \* the row count logged at features.py:174
    out_csv,            \* the output file
    fault               \* the exception create_features ended with

callVars == <<call, ret>>
runVars  == <<source_dir, chunk_size, rolling_window_1, rolling_window_2,
              workers, pc, args, taskq, wk, number_left, map_success,
              results, executed, map_exc, features_df, logged, out_csv,
              fault>>
vars     == <<call, ret, source_dir, chunk_size, rolling_window_1,
              rolling_window_2, workers, pc, args, taskq, wk, number_left,
              map_success, results, executed, map_exc, features_df, logged,
              out_csv, fault>>

\* ------------------------------------------------------------------ bounds
MaxFlowLen     == 4     \* packets of a flow given to split()
MaxGap         == 3     \* largest time step between consecutive packets
MaxChunk       == 3     \* largest chunk_size
MaxLen         == 6     \* length of a direction sequence
MaxWindowLen   == 3     \* packets of a window given to engineer_features()
MaxRunPkts     == 3     \* packets of all files of one create_features run
MaxWorkers     == 2     \* largest cpu_count()

\* ------------------------------------------------------------ value sets
SENT     == 1
RECEIVED == 2
Dirs     == {SENT, RECEIVED}
Sizes    == {0, 100, 1500}          \* zero, small (< 200), large (> 1200)
FirstTime == 5                      \* time of a flow's first packet
WindowGaps == {1, 1000}             \* ms between packets of a window
RollingWidths == {1000, 2500}       \* ms; int(w / 1000) is 1 and 2
RunGaps  == {0, 2}
RunSizes == {100}
RunChunks == {1, 2}

NotCalled  == [kind |-> "not called"]
NoException == [kind |-> "no exception"]
NoFile     == [written |-> FALSE]
NotLogged  == 0 - 1
Unset      == [kind |-> "unset"]
NaN        == <<"nan">>
Inf        == <<"inf">>

\* ----------------------------------------------------------------- helpers
RECURSIVE SumSeq(_)
SumSeq(s) == IF s = <<>> THEN 0 ELSE Head(s) + SumSeq(Tail(s))

Max(a, b) == IF a >= b THEN a ELSE b

SetMax(S) == CHOOSE x \in S : \A y \in S : y <= x

\* The rows of a CSV read by pd.read_csv: the RangeIndex label idx (0-based),
\* and the columns time, size, dir.  dt_time is time minus the flow's first
\* time, so it is not stored: only its differences are used.
Row(i, t, s, d) == [idx |-> i, time |-> t, size |-> s, dir |-> d]

\* All flows of exactly n rows, times non-decreasing (etl.py sorts by time).
FlowsOfLen(n, gaps, sizes, dirs) ==
    IF n = 0 THEN {<<>>}
    ELSE { [i \in 1..n |->
              Row(i - 1,
                  FirstTime + SumSeq([k \in 1..(i - 1) |-> g[k]]),
                  s[i], d[i])] :
           g \in [1..(n - 1) -> gaps], s \in [1..n -> sizes],
           d \in [1..n -> dirs] }

FlowsUpTo(n, gaps, sizes, dirs) ==
    UNION { FlowsOfLen(k, gaps, sizes, dirs) : k \in 1..n }

\* ------------------------------------------------------------------- split
\* np.arange(start, end, step) on integers.
Arange(start, end, step) ==
    LET n == IF end > start THEN (end - start + step - 1) \div step ELSE 0
    IN  [k \in 1..n |-> start + (k - 1) * step]

\* feature_creation.py:11, the end of the binning range.
\* (faulty variant: the range ends at last_time, without the extra chunk)
BinsEndNoPad(last_time, chunk) == last_time
BinsEnd(last_time, chunk) == last_time + chunk

\* feature_creation.py:10-12
Bins(flow, chunk) ==
    LET start == flow[1].time - 1
        end   == BinsEnd(flow[Len(flow)].time, chunk)
    IN  Arange(start, end, chunk)

\* pd.cut(x, bins) with its defaults right=True, include_lowest=False: the
\* category of x is the interval (bins[i], bins[i+1]] that holds it.
\* (faulty variant: right=False, intervals [lo, hi))
InBinLeftClosed(x, lo, hi) == lo <= x /\ x < hi
InBin(x, lo, hi) == lo < x /\ x <= hi

\* The categories of the 'binned' column, in order: <<lo, hi>> is (lo, hi].
Categories(bins) ==
    [i \in 1..(IF Len(bins) = 0 THEN 0 ELSE Len(bins) - 1) |->
        <<bins[i], bins[i + 1]>>]

\* feature_creation.py:8
Streaming(novideo) == IF novideo THEN 0 ELSE 1

\* feature_creation.py:4-17.  df.groupby('binned') on a categorical column
\* yields one group per category, in category order, empty groups included;
\* rows keep their file order inside a group.  A window is the pair
\* (streaming, split_df); key is the group key of line 15.
split(file, chunk) ==
    LET bins == Bins(file.rows, chunk)
        cats == Categories(bins)
    IN  [i \in 1..Len(cats) |->
            [label |-> Streaming(file.novideo),
             key   |-> cats[i],
             rows  |-> SelectSeq(file.rows,
                          LAMBDA r : InBin(r.time, cats[i][1], cats[i][2]))]]

\* ------------------------------------------------------ longest_dir_streak
\* feature_creation.py:33
\* (faulty variant: the trailing run is not committed)
StreakReturnNoTrailing(longest, current) == longest
StreakReturn(longest, current) == Max(longest, current)

\* feature_creation.py:26-31: the loop, as a fold over vals from state
\* <<longest, current>>.
RECURSIVE StreakLoop(_, _, _)
StreakLoop(vals, dir, st) ==
    IF vals = <<>> THEN st
    ELSE StreakLoop(Tail(vals), dir,
            IF Head(vals) = dir
            THEN <<st[1], st[2] + 1>>
            ELSE <<Max(st[1], st[2]), 0>>)

\* feature_creation.py:20-33
longest_dir_streak(vals, dir) ==
    LET st == StreakLoop(vals, dir, <<0, 0>>)
    IN  StreakReturn(st[1], st[2])

\* -------------------------------------------------------------------- roll
\* feature_creation.py:42-47.  df[column].rolling(seconds) with an integer
\* argument is a window of that many observations, min_periods = seconds:
\* the mean is NaN until `seconds` observations are available.
\* window_width (line 40) is computed and never used.
roll(df, column, seconds) ==
    [i \in 1..Len(df) |->
        IF i < seconds THEN NaN
        ELSE <<SumSeq([k \in 1..seconds |-> df[i - seconds + k][column]]),
               seconds>>]

\* Series.mean() of a series of rolling means (NaN skipped): all the defined
\* entries share one denominator.
MeanSkipNa(series) ==
    LET defined == SelectSeq(series, LAMBDA v : v # NaN)
    IN  IF defined = <<>> THEN NaN
        ELSE <<SumSeq([i \in 1..Len(defined) |-> defined[i][1]]),
               defined[1][2] * Len(defined)>>

\* ------------------------------------------------------- engineer_features
OfDir(df, d) == SelectSeq(df, LAMBDA r : r.dir = d)

SizeSum(df) == SumSeq([i \in 1..Len(df) |-> df[i].size])

\* numpy int64 / int64 (features.py:51): no exception, inf or nan on zero.
NpDiv(a, b) == IF b = 0 THEN (IF a = 0 THEN NaN ELSE Inf) ELSE <<a, b>>

\* Python int / int (features.py:54, 65-71) raises ZeroDivisionError on zero.
PyDivRaises(a, b) == b = 0
PyDiv(a, b) == <<a, b>>

\* Series.mean() over the sizes of one direction (features.py:47-48).
SizeMean(df) == IF Len(df) = 0 THEN NaN ELSE <<SizeSum(df), Len(df)>>

\* features.py:44
\* (faulty variant: received_bytes is not tested)
SkipConditionPacketsOnly(received_bytes, received_packets) ==
    received_packets = 0
SkipCondition(received_bytes, received_packets) ==
    received_bytes = 0 \/ received_packets = 0

\* features.py:57-62
LargeSize == 1200
SmallSize == 200
Large(df) == SelectSeq(df, LAMBDA r : r.size > LargeSize)
Small(df) == SelectSeq(df, LAMBDA r : r.size < SmallSize)

\* features.py:75-76: ip_delay is the difference of consecutive index times
\* in milliseconds; the first row's is NaN and dropna removes that row.
IpDelayFrame(df) ==
    [i \in 1..(IF Len(df) = 0 THEN 0 ELSE Len(df) - 1) |->
        [idx |-> df[i + 1].idx, time |-> df[i + 1].time,
         size |-> df[i + 1].size, dir |-> df[i + 1].dir,
         ip_delay |-> df[i + 1].time - df[i].time]]

\* features.py:91-92: int(rolling_window / 1000)
Seconds(rolling_window) == rolling_window \div 1000

\* features.py:78-86: Welch PSD, peaks, prominences; max() of no peak raises
\* and the except sets 0.  The value is a finite float either way; the model
\* keeps it opaque.
MaxProminence(df) == <<"prominence">>

DirColumn(df) == [i \in 1..Len(df) |-> df[i].dir]

Returned(v) == [kind |-> "features", features |-> v]
ReturnedNone == [kind |-> "None"]
Raised(e, l) == [kind |-> "raise", exc |-> e, line |-> l]

\* features.py:25-115.  The df of line 35 has no row to drop: etl.py writes
\* integer columns only.
engineer_features(df0, label, rw1, rw2) ==
    LET sent              == OfDir(df0, SENT)
        received          == OfDir(df0, RECEIVED)
        sent_bytes        == SizeSum(sent)
        received_bytes    == SizeSum(received)
        sent_packets      == Len(sent)
        received_packets  == Len(received)
        df                == IpDelayFrame(df0)
    IN  IF SkipCondition(received_bytes, received_packets)
        THEN ReturnedNone
        ELSE IF PyDivRaises(sent_packets, received_packets)
        THEN Raised("ZeroDivisionError", 54)
        ELSE IF PyDivRaises(Len(Large(sent)), Len(sent))
        THEN Raised("ZeroDivisionError", 65)
        ELSE IF PyDivRaises(Len(Large(received)), Len(received))
        THEN Raised("ZeroDivisionError", 69)
        ELSE Returned(<<
            NpDiv(sent_bytes, received_bytes),
            PyDiv(sent_packets, received_packets),
            MeanSkipNa(roll(df, "ip_delay", Seconds(rw1))),
            MeanSkipNa(roll(df, "ip_delay", Seconds(rw2))),
            SizeMean(received),
            SizeMean(sent),
            PyDiv(Len(Large(sent)), Len(sent)),
            PyDiv(Len(Small(sent)), Len(sent)),
            PyDiv(Len(Large(received)), Len(received)),
            PyDiv(Len(Small(received)), Len(received)),
            longest_dir_streak(DirColumn(df), SENT),
            longest_dir_streak(DirColumn(df), RECEIVED),
            MaxProminence(df),
            label >>)

\* =========================================================================
\* One call of a library function
\* =========================================================================
RunIdle ==
    /\ source_dir = <<>> /\ chunk_size = 0
    /\ rolling_window_1 = 0 /\ rolling_window_2 = 0 /\ workers = 0
    /\ pc = "idle" /\ args = <<>> /\ taskq = <<>> /\ wk = <<>>
    /\ number_left = 0 /\ map_success = TRUE /\ results = <<>>
    /\ executed = <<>> /\ map_exc = NoException /\ features_df = <<>>
    /\ logged = NotLogged /\ out_csv = NoFile /\ fault = NoException

SeqsUpTo(S, n) == UNION { [1..k -> S] : k \in 0..n }

InitSplit ==
    /\ call \in { [fn |-> "split", file |-> [novideo |-> nv, rows |-> f],
                   chunk_size |-> c] :
                  nv \in BOOLEAN,
                  f \in FlowsUpTo(MaxFlowLen, 0..MaxGap, {100}, {SENT}),
                  c \in 1..MaxChunk }
    /\ ret = NotCalled
    /\ RunIdle

CallSplit ==
    /\ call.fn = "split" /\ ret = NotCalled
    /\ ret' = [kind |-> "all_dfs", value |-> split(call.file, call.chunk_size)]
    /\ UNCHANGED <<call, runVars>>

SpecSplit == InitSplit /\ [][CallSplit]_vars

InitStreak ==
    /\ call \in { [fn |-> "longest_dir_streak", vals |-> v, dir |-> d] :
                  v \in SeqsUpTo(Dirs, MaxLen), d \in Dirs }
    /\ ret = NotCalled
    /\ RunIdle

CallStreak ==
    /\ call.fn = "longest_dir_streak" /\ ret = NotCalled
    /\ ret' = [kind |-> "int",
               value |-> longest_dir_streak(call.vals, call.dir)]
    /\ UNCHANGED <<call, runVars>>

SpecStreak == InitStreak /\ [][CallStreak]_vars

InitFeat ==
    /\ call \in { [fn |-> "engineer_features", df |-> f, label |-> l,
                   rolling_window_1 |-> w1, rolling_window_2 |-> w2] :
                  f \in FlowsUpTo(MaxWindowLen, WindowGaps, Sizes, Dirs)
                        \cup {<<>>},
                  l \in {0, 1}, w1 \in RollingWidths, w2 \in RollingWidths }
    /\ ret = NotCalled
    /\ RunIdle

CallEngineerFeatures ==
    /\ call.fn = "engineer_features" /\ ret = NotCalled
    /\ ret' = engineer_features(call.df, call.label, call.rolling_window_1,
                                call.rolling_window_2)
    /\ UNCHANGED <<call, runVars>>

SpecFeat == InitFeat /\ [][CallEngineerFeatures]_vars

\* =========================================================================
\* create_features(): one run of the pipeline
\* =========================================================================
\* The flows of the source directories whose files hold at most b packets
\* together.
RECURSIVE FlowLists(_)
FlowLists(b) ==
    {<<>>} \cup
    UNION { { <<f>> \o rest : rest \in FlowLists(b - Len(f)) } :
            f \in FlowsUpTo(b, RunGaps, RunSizes, Dirs) }

\* The source directories: the file names alternate between carrying the
\* 'novideo' marker and not, starting with either.
SourceDirs(b) ==
    { [k \in 1..Len(fl) |->
          [novideo |-> IF k % 2 = 1 THEN nv ELSE ~nv, rows |-> fl[k]]] :
      fl \in FlowLists(b), nv \in BOOLEAN }

Init ==
    /\ call = [fn |-> "create_features"] /\ ret = NotCalled
    /\ source_dir \in SourceDirs(MaxRunPkts)
    /\ chunk_size \in RunChunks
    /\ rolling_window_1 = 1000
    /\ rolling_window_2 \in RollingWidths
    /\ workers \in 1..MaxWorkers
    /\ pc = "start"
    /\ args = <<>> /\ taskq = <<>> /\ wk = <<>>
    /\ number_left = 0 /\ map_success = TRUE /\ results = <<>>
    /\ executed = <<>> /\ map_exc = NoException /\ features_df = <<>>
    /\ logged = NotLogged /\ out_csv = NoFile /\ fault = NoException

RECURSIVE Flatten(_)
Flatten(ss) == IF ss = <<>> THEN <<>> ELSE Head(ss) \o Flatten(Tail(ss))

\* features.py:125-159: split every file, flatten, build the task tuples.
TaskList(dir, chunk, rw1, rw2) ==
    LET merged == Flatten([f \in 1..Len(dir) |-> split(dir[f], chunk)])
    IN  [i \in 1..Len(merged) |->
            [df |-> merged[i].rows, label |-> merged[i].label,
             rolling_window_1 |-> rw1, rolling_window_2 |-> rw2]]

BuildTasks ==
    /\ pc = "start"
    /\ args' = TaskList(source_dir, chunk_size, rolling_window_1,
                        rolling_window_2)
    /\ pc' = "pool"
    /\ UNCHANGED <<callVars, source_dir, chunk_size, rolling_window_1,
                   rolling_window_2, workers, taskq, wk, number_left,
                   map_success, results, executed, map_exc, features_df,
                   logged, out_csv, fault>>

\* Pool.map's chunksize: ceil(len(iterable) / (4 * processes)).
ChunkSize(n, w) == (n + 4 * w - 1) \div (4 * w)

\* The task indices 1..n cut into consecutive chunks of at most c.
Chunks(n, c) ==
    IF n = 0 THEN <<>>
    ELSE [k \in 1..((n + c - 1) \div c) |->
            [j \in 1..(IF k * c <= n THEN c ELSE n - (k - 1) * c) |->
                (k - 1) * c + j]]

Idle == [state |-> "idle", todo |-> <<>>, out |-> <<>>, exc |-> NoException]

\* features.py:161-166, the fan-out: Pool(processes=workers) and the
\* submission of every task of args, chunked, to the pool's task queue.
PoolMap ==
    /\ pc = "pool"
    /\ taskq' = Chunks(Len(args), ChunkSize(Len(args), workers))
    /\ number_left' = Len(taskq')
    /\ map_success' = TRUE
    /\ results' = [i \in 1..Len(args) |-> Unset]
    /\ executed' = [i \in 1..Len(args) |-> 0]
    /\ wk' = [w \in 1..workers |-> Idle]
    /\ pc' = "map"
    /\ UNCHANGED <<callVars, source_dir, chunk_size, rolling_window_1,
                   rolling_window_2, workers, args, map_exc, features_df,
                   logged, out_csv, fault>>

\* A pool worker takes the next chunk off the task queue.  The workers run
\* the same loop, so which idle one gets the chunk makes no difference: the
\* model gives it to the idle worker of lowest number.
WorkerGet(w) ==
    /\ pc = "map"
    /\ wk[w].state = "idle"
    /\ \A v \in 1..(w - 1) : wk[v].state = "busy"
    /\ taskq # <<>>
    /\ wk' = [wk EXCEPT ![w] = [state |-> "busy", todo |-> Head(taskq),
                                out |-> <<>>, exc |-> NoException]]
    /\ taskq' = Tail(taskq)
    /\ UNCHANGED <<callVars, source_dir, chunk_size, rolling_window_1,
                   rolling_window_2, workers, pc, args, number_left,
                   map_success, results, executed, map_exc, features_df,
                   logged, out_csv, fault>>

\* features.py:22-23
_engineer_features(a) ==
    engineer_features(a.df, a.label, a.rolling_window_1, a.rolling_window_2)

\* A worker runs the next task of its chunk (mapstar: list(map(func, chunk))):
\* an exception ends the chunk, its remaining tasks are not run.
WorkerRun(w) ==
    /\ pc = "map"
    /\ wk[w].state = "busy"
    /\ wk[w].todo # <<>>
    /\ wk[w].exc = NoException
    /\ LET i == Head(wk[w].todo)
           r == _engineer_features(args[i])
       IN  /\ executed' = [executed EXCEPT ![i] = @ + 1]
           /\ wk' = [wk EXCEPT ![w] =
                        IF r.kind = "raise"
                        THEN [@ EXCEPT !.exc = r]
                        ELSE [@ EXCEPT !.todo = Tail(@),
                                       !.out = Append(@, <<i, r>>)]]
    /\ UNCHANGED <<callVars, source_dir, chunk_size, rolling_window_1,
                   rolling_window_2, workers, pc, args, taskq, number_left,
                   map_success, results, map_exc, features_df, logged,
                   out_csv, fault>>

\* MapResult._set: the worker posts its chunk's result.  Values are stored
\* while no chunk has failed; the first exception is kept.
WorkerPut(w) ==
    /\ pc = "map"
    /\ wk[w].state = "busy"
    /\ wk[w].todo = <<>> \/ wk[w].exc # NoException
    /\ number_left' = number_left - 1
    /\ IF wk[w].exc = NoException
       THEN /\ results' =
                  IF map_success
                  THEN [i \in 1..Len(results) |->
                          IF \E k \in 1..Len(wk[w].out) : wk[w].out[k][1] = i
                          THEN (CHOOSE o \in { wk[w].out[k] :
                                               k \in 1..Len(wk[w].out) } :
                                   o[1] = i)[2]
                          ELSE results[i]]
                  ELSE results
            /\ UNCHANGED <<map_success, map_exc>>
       ELSE /\ map_success' = FALSE
            /\ map_exc' = IF map_success THEN wk[w].exc ELSE map_exc
            /\ UNCHANGED results
    /\ wk' = [wk EXCEPT ![w] = Idle]
    /\ UNCHANGED <<callVars, source_dir, chunk_size, rolling_window_1,
                   rolling_window_2, workers, pc, args, taskq, executed,
                   features_df, logged, out_csv, fault>>

\* MapResult is ready once every chunk has posted (number_left == 0).
\* (faulty variant: ready as soon as one chunk has posted)
MapReadyOnFirstPost == number_left < Len(Chunks(Len(args),
                                         ChunkSize(Len(args), workers)))
                       \/ number_left = 0
MapReady == number_left = 0

\* MapResult.get() re-raises the stored exception.
\* (faulty variant: a task's exception is swallowed)
MapRaisesNever == FALSE
MapRaises == ~map_success

\* features.py:166, the fan-in: pool.map returns the list of results.
MapReturn ==
    /\ pc = "map"
    /\ MapReady
    /\ ~MapRaises
    /\ pc' = "reduce"
    /\ UNCHANGED <<callVars, source_dir, chunk_size, rolling_window_1,
                   rolling_window_2, workers, args, taskq, wk, number_left,
                   map_success, results, executed, map_exc, features_df,
                   logged, out_csv, fault>>

\* features.py:166: pool.map raises and create_features ends with the fault.
MapRaise ==
    /\ pc = "map"
    /\ MapReady
    /\ MapRaises
    /\ pc' = "failed"
    /\ fault' = map_exc
    /\ UNCHANGED <<callVars, source_dir, chunk_size, rolling_window_1,
                   rolling_window_2, workers, args, taskq, wk, number_left,
                   map_success, results, executed, map_exc, features_df,
                   logged, out_csv>>

\* np.vstack turns every field of a feature list into a float: the two
\* streaks and the label are the integer fields (features.py:108-112).
IntFields == {11, 12, 14}
MatrixRow(features) ==
    [k \in 1..Len(features) |->
        IF k \in IntFields THEN <<features[k], 1>> ELSE features[k]]

\* features.py:170: filter(lambda x: x is not None, results)
NotNone(rs) == SelectSeq(rs, LAMBDA r : r.kind = "features")

\* features.py:172: DataFrame(...).dropna()
HasNaN(row) == \E k \in 1..Len(row) : row[k] = NaN
DropNa(rows) == SelectSeq(rows, LAMBDA row : ~HasNaN(row))

\* features.py:170-174: np.vstack of an empty list raises ValueError.
Assemble ==
    /\ pc = "reduce"
    /\ LET kept == NotNone(results)
       IN  IF kept = <<>>
           THEN /\ pc' = "failed"
                /\ fault' = [kind |-> "raise", exc |-> "ValueError",
                             line |-> 170]
                /\ UNCHANGED <<features_df, logged>>
           ELSE /\ features_df' =
                      DropNa([k \in 1..Len(kept) |->
                                 MatrixRow(kept[k].features)])
                /\ logged' = Len(features_df')
                /\ pc' = "write"
                /\ UNCHANGED fault
    /\ UNCHANGED <<callVars, source_dir, chunk_size, rolling_window_1,
                   rolling_window_2, workers, args, taskq, wk, number_left,
                   map_success, results, executed, map_exc, out_csv>>

\* features.py:176
WriteCsv ==
    /\ pc = "write"
    /\ out_csv' = [written |-> TRUE, rows |-> features_df]
    /\ pc' = "done"
    /\ UNCHANGED <<callVars, source_dir, chunk_size, rolling_window_1,
                   rolling_window_2, workers, args, taskq, wk, number_left,
                   map_success, results, executed, map_exc, features_df,
                   logged, fault>>

Next ==
    \/ BuildTasks
    \/ PoolMap
    \/ \E w \in 1..workers : WorkerGet(w)
    \/ \E w \in 1..workers : WorkerRun(w)
    \/ \E w \in 1..workers : WorkerPut(w)
    \/ MapReturn
    \/ MapRaise
    \/ Assemble
    \/ WriteCsv

Spec == Init /\ [][Next]_vars

\* =========================================================================
\* Claims about split()                                   (under SpecSplit)
\* =========================================================================
SplitDone == ret.kind = "all_dfs"

\* The windows (by position) that hold the row with RangeIndex label i.
WindowsHolding(W, i) ==
    { <<w, j>> \in (1..Len(W)) \X (0..MaxFlowLen + 1) :
        j \in 1..Len(W[w].rows) /\ W[w].rows[j].idx = i }

\* C1: for a non-empty time-ordered flow and chunk_size > 0, every packet of
\* the flow, the first and the last included, lies in exactly one produced
\* window (and is there unchanged), every row of a window lies in the window's
\* interval, and the intervals of two windows of the flow do not overlap.
C1_EveryPacketInExactlyOneWindow ==
    SplitDone =>
        LET W    == ret.value
            flow == call.file.rows
        IN  /\ \A i \in 1..Len(flow) :
                  /\ Cardinality(WindowsHolding(W, flow[i].idx)) = 1
                  /\ \A h \in WindowsHolding(W, flow[i].idx) :
                        W[h[1]].rows[h[2]] = flow[i]
            /\ \A w \in 1..Len(W) : \A j \in 1..Len(W[w].rows) :
                  /\ W[w].key[1] < W[w].rows[j].time
                  /\ W[w].rows[j].time <= W[w].key[2]
                  /\ \E i \in 1..Len(flow) : flow[i] = W[w].rows[j]
            /\ \A w1, w2 \in 1..Len(W) :
                  w1 < w2 => W[w1].key[2] <= W[w2].key[1]

\* A flow of three packets or more whose first and last packet land in
\* different windows.
C1_Witness ==
    /\ SplitDone
    /\ Len(call.file.rows) >= 3
    /\ \E w1, w2 \in 1..Len(ret.value) :
          /\ w1 < w2
          /\ \E j \in 1..Len(ret.value[w1].rows) :
                ret.value[w1].rows[j] = call.file.rows[1]
          /\ \E j \in 1..Len(ret.value[w2].rows) :
                ret.value[w2].rows[j] = call.file.rows[Len(call.file.rows)]

\* The boundaries: window k spans first_time - 1 + (k-1)*chunk_size to
\* first_time - 1 + k*chunk_size, and the last boundary is the first one at
\* or past last_time.
Boundaries ==
    LET W  == ret.value
        t0 == call.file.rows[1].time
        tN == call.file.rows[Len(call.file.rows)].time
        c  == call.chunk_size
    IN  /\ Len(W) >= 1
        /\ \A w \in 1..Len(W) :
              W[w].key = <<t0 - 1 + (w - 1) * c, t0 - 1 + w * c>>
        /\ W[Len(W)].key[2] >= tN
        /\ W[Len(W)].key[1] < tN

HoldsRow(win, r) == \E j \in 1..Len(win.rows) : win.rows[j] = r

\* C2 as stated: boundaries are first_time - 1 + k*chunk_size and a packet
\* whose time equals a boundary b is in the window that starts at b.
C2_BoundaryPacketInWindowStartingThere ==
    SplitDone =>
        /\ Boundaries
        /\ \A i \in 1..Len(call.file.rows) : \A w \in 1..Len(ret.value) :
              call.file.rows[i].time = ret.value[w].key[1]
                  => HoldsRow(ret.value[w], call.file.rows[i])

\* C2 amended: boundaries are first_time - 1 + k*chunk_size and a packet
\* whose time equals a boundary b is in the window that ends at b, and in no
\* window that starts at b: windows are (start, start + chunk_size].
C2_BoundaryPacketInWindowEndingThere ==
    SplitDone =>
        /\ Boundaries
        /\ \A i \in 1..Len(call.file.rows) : \A w \in 1..Len(ret.value) :
              /\ call.file.rows[i].time = ret.value[w].key[2]
                    => HoldsRow(ret.value[w], call.file.rows[i])
              /\ call.file.rows[i].time = ret.value[w].key[1]
                    => ~HoldsRow(ret.value[w], call.file.rows[i])

\* A packet on a boundary that both ends one window and starts the next.
C2_Witness ==
    /\ SplitDone
    /\ \E i \in 1..Len(call.file.rows) : \E w \in 1..(Len(ret.value) - 1) :
          /\ call.file.rows[i].time = ret.value[w].key[2]
          /\ call.file.rows[i].time = ret.value[w + 1].key[1]
          /\ HoldsRow(ret.value[w], call.file.rows[i])

\* =========================================================================
\* Claims about longest_dir_streak()                     (under SpecStreak)
\* =========================================================================
\* Reference: the greatest length of an interval of positions all holding d.
MaxRun(vals, d) ==
    SetMax({0} \cup
           { j - i + 1 : <<i, j>> \in
               { p \in (1..Len(vals)) \X (1..Len(vals)) :
                   p[1] <= p[2] /\ \A k \in p[1]..p[2] : vals[k] = d } })

Alternating(vals) == \A k \in 1..(Len(vals) - 1) : vals[k] # vals[k + 1]

\* C3: longest_dir_streak returns the length of the longest maximal run of
\* the target: the reference maximum run in general, 0 for a sequence empty
\* or without the target, n for n target codes, 1 for a strictly alternating
\* sequence that contains the target.
C3_LongestRun ==
    ret.kind = "int" =>
        LET v == call.vals
            d == call.dir
        IN  /\ ret.value = MaxRun(v, d)
            /\ (\A k \in 1..Len(v) : v[k] # d) => ret.value = 0
            /\ (\A k \in 1..Len(v) : v[k] = d) => ret.value = Len(v)
            /\ (Alternating(v) /\ \E k \in 1..Len(v) : v[k] = d)
                  => ret.value = 1

\* The longest run is the trailing one, longer than every earlier run.
C3_Witness ==
    /\ ret.kind = "int"
    /\ call.vals = <<1, 1, 2, 1, 1, 1>>
    /\ call.dir = 1
    /\ ret.value = 3

\* =========================================================================
\* Claims about engineer_features()                        (under SpecFeat)
\* =========================================================================
FeatDone == ret # NotCalled /\ call.fn = "engineer_features"

Positions(df, d) == { i \in 1..Len(df) : df[i].dir = d }

RECURSIVE SumOver(_, _)
SumOver(df, S) ==
    IF S = {} THEN 0
    ELSE LET i == CHOOSE x \in S : TRUE
         IN  df[i].size + SumOver(df, S \ {i})

ReceivedBytes(df)   == SumOver(df, Positions(df, RECEIVED))
ReceivedPackets(df) == Cardinality(Positions(df, RECEIVED))
SentPackets(df)     == Cardinality(Positions(df, SENT))

\* C4: a window with received_bytes = 0 or received_packets = 0 (an empty
\* window included) makes engineer_features return None: no row, no raise.
C4_ZeroDownlinkSkips ==
    FeatDone =>
        ((ReceivedBytes(call.df) = 0 \/ ReceivedPackets(call.df) = 0)
            => ret = ReturnedNone)

\* Received packets are present, all of size 0, beside sent packets.
C4_Witness ==
    /\ FeatDone
    /\ ReceivedPackets(call.df) > 0
    /\ ReceivedBytes(call.df) = 0
    /\ SentPackets(call.df) > 0
    /\ ret = ReturnedNone

\* C10 as stated: every window with received_bytes > 0 and received_packets
\* > 0 (zero sent packets included) returns, without raising, a vector of 14
\* fields with the window's label last.
C10_ValidWindowReturnsVector ==
    FeatDone =>
        ((ReceivedBytes(call.df) > 0 /\ ReceivedPackets(call.df) > 0)
            => /\ ret.kind = "features"
               /\ Len(ret.features) = 14
               /\ ret.features[14] = call.label)

\* C9 as stated: the emitted streaks are the longest runs of direction 1 and
\* of direction 2 over all packets of the window, the first one included.
C9_StreaksOverWholeWindow ==
    (FeatDone /\ ret.kind = "features") =>
        /\ ret.features[11] = MaxRun(DirColumn(call.df), SENT)
        /\ ret.features[12] = MaxRun(DirColumn(call.df), RECEIVED)

\* Mean of column ip_delay over the observations whose timestamp lies in the
\* `seconds` seconds that end at observation i.
TimeWindowMean(df, i, seconds) ==
    LET S == { j \in 1..i : df[j].time > df[i].time - seconds * 1000 }
    IN  <<SumSeq([j \in 1..i |-> IF j \in S THEN df[j].ip_delay ELSE 0]),
          Cardinality(S)>>

\* C8 as stated: at every observation roll() yields the mean over the
\* trailing time window of `seconds` seconds ending there, defined even when
\* fewer than `seconds` observations precede it.
C8_RollIsTimeWindowed ==
    (FeatDone /\ ret.kind = "features") =>
        LET df == IpDelayFrame(call.df)
            s  == Seconds(call.rolling_window_1)
            r  == roll(df, "ip_delay", s)
        IN  \A i \in 1..Len(df) :
               /\ r[i] # NaN
               /\ r[i][1] * TimeWindowMean(df, i, s)[2]
                     = TimeWindowMean(df, i, s)[1] * r[i][2]

\* =========================================================================
\* Claims about create_features()                              (under Spec)
\* =========================================================================
Submitted == pc \notin {"idle", "start", "pool"}

Reducing == pc \in {"reduce", "write", "done"}

\* The places (queued chunks, workers' chunks) that still hold task i.
Holders(i) ==
    { <<"queue", k>> : k \in { k \in 1..Len(taskq) :
          \E j \in 1..Len(taskq[k]) : taskq[k][j] = i } }
    \cup
    { <<"worker", w>> : w \in { w \in 1..Len(wk) :
          \E j \in 1..Len(wk[w].todo) : wk[w].todo[j] = i } }

TaskRaised ==
    \/ ~map_success
    \/ \E w \in 1..Len(wk) : wk[w].exc # NoException

NothingPendingOrRunning ==
    /\ taskq = <<>>
    /\ \A w \in 1..Len(wk) : wk[w].state = "idle"

\* C5: every task of args is handed to the pool once and run at most once;
\* the reduce step (filter, stack, write) starts only when every task has
\* been run exactly once and has its result, with no task queued or running,
\* under every interleaving of the workers; the file is never written while
\* a task is pending or running.
C5_ReduceOnlyAfterAllTasks ==
    Submitted =>
        /\ \A i \in 1..Len(args) :
              /\ executed[i] <= 1
              /\ Cardinality(Holders(i)) <= 1
              /\ (~TaskRaised /\ executed[i] = 0)
                    => Cardinality(Holders(i)) = 1
        /\ (Reducing \/ out_csv.written) =>
              /\ NothingPendingOrRunning
              /\ \A i \in 1..Len(args) :
                    executed[i] = 1 /\ results[i] # Unset

\* The file is written after two workers shared three tasks or more.
C5_Witness ==
    /\ pc = "done"
    /\ out_csv.written
    /\ workers = 2
    /\ Len(args) >= 3
    /\ \A i \in 1..Len(args) : executed[i] = 1

\* The matrix the tasks of args call for: one row per task that returns a
\* vector without NaN, in task order.
ExpectedRows ==
    LET rs   == [i \in 1..Len(args) |-> _engineer_features(args[i])]
        good == SelectSeq(rs, LAMBDA r :
                    r.kind = "features" /\
                    \A k \in {1, 2, 3, 4, 5, 6, 7, 8, 9, 10, 13} :
                        r.features[k] # NaN)
    IN  [k \in 1..Len(good) |->
            [f \in 1..14 |->
                IF f \in {11, 12, 14} THEN <<good[k].features[f], 1>>
                ELSE good[k].features[f]]]

\* C6: once a task has raised, or the assembly has failed, no output file is
\* written and the run ends with that fault; a file that is written holds
\* the rows of all the tasks, never a part of them.
C6_NoFileOnFault ==
    /\ (TaskRaised \/ fault # NoException \/ pc = "failed")
          => ~out_csv.written
    /\ pc = "failed" =>
          /\ fault.kind = "raise"
          /\ TaskRaised => fault = map_exc
    /\ (pc \in {"done", "failed"} /\ TaskRaised) => pc = "failed"
    /\ out_csv.written => out_csv.rows = ExpectedRows

\* A run that failed on a task's exception after another task of the run had
\* delivered a feature vector.
C6_Witness ==
    /\ pc = "failed"
    /\ fault.kind = "raise" /\ fault.exc = "ZeroDivisionError"
    /\ \E i \in 1..Len(results) : results[i].kind = "features"
    /\ ~out_csv.written

\* C7 as stated, for the runs that have a window at least and in which no
\* task raises: the run ends with a written matrix holding exactly the rows of
\* the tasks that returned a vector without missing value, and the logged
\* count is the number of rows written.
C7_RunEndsWithWrittenMatrix ==
    (pc \in {"done", "failed"} /\ ~TaskRaised /\ Len(args) >= 1) =>
        /\ out_csv.written
        /\ out_csv.rows = ExpectedRows
        /\ logged = Len(out_csv.rows)

====
